---- MODULE Spec2Model ----
(***************************************************************************)
(* greefan.device.Device: the binding state, the property cache and the    *)
(* dirty list of one device, with the coroutines bind, request_version,    *)
(* update_state and push_state_update cut at their await points.           *)
(*                                                                         *)
(* Scheduling: asyncio is cooperative, a coroutine runs without            *)
(* interruption from one await to the next.  One network operation is in   *)
(* flight at a time (one outstanding request/response exchange per device);*)
(* the calls that never suspend (set_property, get_property, bind with a   *)
(* key) may run while that operation is suspended.                         *)
(***************************************************************************)
EXTENDS Naturals, Integers, Sequences, FiniteSets, TLC

VARIABLES
    device_info,    \* TRUE: a DeviceInfo object, FALSE: None
    device_key,     \* None, "" or a key
    hid,            \* None or the hardware id string
    version,        \* None or the firmware version string
    _properties,    \* PyNone or Some(code -> value)
    _dirty,         \* sequence of wire codes
    pc,             \* await point of the coroutine in flight, or "idle"
    start_dirty,    \* history: _dirty when the push_state_update in flight was called
    lset,           \* history: code -> value of the set_property calls that changed the
                    \*          cache since that push last read the dirty list
    kept,           \* history: while an update_state is in flight, what _properties, hid
                    \*          and version would be had it written nothing; once its
                    \*          status reply is stored, whether that left the cache as
                    \*          it was, in place of the cache
    hid_seen,       \* history: a hardware id has been observed
    pending,        \* history: for each dirty code, the value of the latest
                    \*          set_property call for it
    tracking,       \* whether kept, hid_seen and pending are recorded
    last            \* the step just taken: operation, arguments, await point resumed,
                    \* outcome of the exchange, result, request sent, and for the
                    \* last step of a push_state_update or update_state its history

vars == <<device_info, device_key, hid, version, _properties, _dirty, pc,
          start_dirty, lset, kept, hid_seen, pending, tracking, last>>

-----------------------------------------------------------------------------
(* Bounds *)

NumCodes == 2       \* how many of the Props codes the callers and the device use

-----------------------------------------------------------------------------
(* Python values *)

None == "None"
Truthy(x) == x # None /\ x # ""

PyNone == <<>>
Some(m) == <<m>>
EmptyDict == [c \in {} |-> 0]

\* dict.get(name) of a missing key
NoValue == -1

Range(s) == {s[i] : i \in 1..Len(s)}

-----------------------------------------------------------------------------
(* Props and the inputs *)

Props == <<"Pow", "Mod", "WdSpd", "SwingLfRig", "SwUpDn">>
AllCodes == Range(Props)
Codes == {Props[i] : i \in 1..NumCodes}
\* the values of Mode (Auto, Sleep), and of power as int(bool)
Values == {0, 1}
Keys == {"k1", "k2"}

HidWithVersion == "362001000762+U-CS532AE(LT)V3.31.bin"
HidNoVersion == "362001000762+U-CS532AE(LT)"

\* re.search(r"(?<=V)([\d.]+)\.bin$", hid): match and match.group(1)
VersionOf(h) == IF h = HidWithVersion THEN "3.31" ELSE None

Dicts == UNION {[D -> Values] : D \in SUBSET Codes}

\* dict.get
Get(d, name) == IF name \in DOMAIN d THEN d[name] ELSE NoValue

-----------------------------------------------------------------------------
(* greefan.network: what one exchange can come to *)

Timeout == [kind |-> "timeout"]
Undecodable == [kind |-> "decode"]
Reply(v) == [kind |-> "reply", val |-> v]

bind_device == {Reply(k) : k \in {None, ""} \cup Keys} \cup {Timeout, Undecodable}
request_state == {Reply(m) : m \in Dicts} \cup {Timeout, Undecodable}
request_hid == {Reply(h) : h \in {None, HidWithVersion, HidNoVersion}}
                 \cup {Timeout, Undecodable}
send_state == {Reply(EmptyDict), Timeout, Undecodable}

BindRequest == [t |-> "bind", cols |-> <<>>, dat |-> EmptyDict, key |-> None]
StatusRequest(cols, key) == [t |-> "status", cols |-> cols, dat |-> EmptyDict, key |-> key]
CmdRequest(p, key) == [t |-> "cmd", cols |-> <<>>, dat |-> p, key |-> key]

\* op: the public operation; at: "call" or the await point the step resumed from;
\* net: how the awaited exchange ended; res: "pending" while the operation is suspended;
\* got: what the exchange returned
Step(op, args, at, net, res, sent) ==
    [op |-> op, args |-> args, at |-> at, net |-> net, res |-> res, sent |-> sent,
     got |-> <<>>, hist |-> <<>>]

\* a step that resumes from no exchange
NoExchange == [kind |-> "none"]

Got(o) == IF o.kind = "reply" THEN <<o.val>> ELSE <<>>

-----------------------------------------------------------------------------
\* the device after construction (lines 112-122); t: whether the histories kept,
\* hid_seen and pending are recorded
Constructed(t) ==
    /\ device_info \in BOOLEAN
    /\ device_key = None
    /\ hid = None
    /\ version = None
    /\ _properties = PyNone
    /\ _dirty = <<>>
    /\ pc = "idle"
    /\ start_dirty = <<>>
    /\ lset = EmptyDict
    /\ kept = <<>>
    /\ hid_seen = FALSE
    /\ pending = EmptyDict
    /\ tracking = t
    /\ last = Step("init", <<>>, "call", "none", "ok", <<>>)

Init == Constructed(FALSE)
InitHist == Constructed(TRUE)

\* v when the histories are recorded
Hist(v, off) == IF tracking THEN v ELSE off

\* the operation in flight suspends at await point p after sending request r
Suspend(op, at, o, p, r) ==
    /\ pc' = p
    /\ last' = [Step(op, <<>>, at, o.kind, "pending", <<r>>) EXCEPT !.got = Got(o)]

\* the operation in flight ends with res
Finish(op, at, o, res) ==
    /\ pc' = "idle"
    /\ last' = [Step(op, <<>>, at, o.kind, res, <<>>) EXCEPT !.got = Got(o)]

\* what the caller sees when an exchange ended other than by a reply, under an
\* "except asyncio.TimeoutError: raise DeviceTimeoutError"
Caught(o) == IF o.kind = "timeout" THEN "DeviceTimeoutError" ELSE "DecodeError"

\* and with no such handler around the await
Uncaught(o) == IF o.kind = "timeout" THEN "TimeoutError" ELSE "DecodeError"

-----------------------------------------------------------------------------
(* set_property, get_property *)

\* the mapping held by _properties, None holding nothing
Contents(p) == IF p = PyNone THEN EmptyDict ELSE p[1]

Put(d, name, value) == [c \in DOMAIN d \cup {name} |-> IF c = name THEN value ELSE d[c]]

\* faulty variant: the code is never marked
MarkDirtyNever(d, name) == d

\* faulty variant: the code is appended without the "not in" test
MarkDirtyAgain(d, name) == Append(d, name)

\* lines 234-235
MarkDirty(d, name) == IF name \in Range(d) THEN d ELSE Append(d, name)

InPush == pc \in {"push_bind", "push_send"}
\* an update_state is in flight and has not stored its status reply yet
InUpdate == pc \in {"update_bind", "update_state"}

\* _properties after set_property(name, value) on the cache p
AfterSet(p, name, value) ==
    IF Get(Contents(p), name) = value
    THEN Some(Contents(p)) ELSE Some(Put(Contents(p), name, value))

set_property(name, value) ==
    /\ IF Get(Contents(_properties), name) = value
       THEN /\ _properties' = Some(Contents(_properties))
            /\ last' = Step("set_property", <<name, value>>, "return", "none", "ok", <<>>)
            /\ UNCHANGED <<_dirty, lset>>
       ELSE /\ _properties' = Some(Put(Contents(_properties), name, value))
            /\ _dirty' = MarkDirty(_dirty, name)
            /\ lset' = IF InPush THEN Put(lset, name, value) ELSE lset
            /\ last' = Step("set_property", <<name, value>>, "assign", "none", "ok", <<>>)
    /\ pending' = IF tracking /\ name \in Range(_dirty')
                  THEN Put(pending, name, value) ELSE pending
    /\ kept' = IF tracking /\ InUpdate THEN [kept EXCEPT ![1] = AfterSet(kept[1], name, value)]
                         ELSE kept
    /\ UNCHANGED <<device_info, device_key, hid, version, pc, start_dirty, hid_seen, tracking>>

get_property(name) ==
    /\ last' = Step("get_property", <<name>>, "call", "none", "ok", <<>>)
    /\ UNCHANGED <<device_info, device_key, hid, version, _properties, _dirty, pc,
                   start_dirty, lset, kept, hid_seen, pending, tracking>>

-----------------------------------------------------------------------------
(* bind *)

\* faulty variant: "if self.device_key is None" in place of "if not self.device_key"
BindResultNoneOnly(o) ==
    IF o.kind = "timeout" THEN "DeviceTimeoutError"
    ELSE IF o.kind = "decode" THEN "DecodeError"
    ELSE IF o.val # None THEN "ok" ELSE "DeviceNotBoundError"

\* the result of bind() once bind_device has come to o (lines 148-161)
BindResult(o) ==
    IF o.kind = "timeout" THEN "DeviceTimeoutError"
    ELSE IF o.kind = "decode" THEN "DecodeError"
    ELSE IF Truthy(o.val) THEN "ok" ELSE "DeviceNotBoundError"

\* faulty variant: the negotiated key is stored only on a device that has none
BindKeyKeep(o) ==
    IF o.kind = "reply" /\ ~Truthy(device_key) THEN o.val ELSE device_key

\* faulty variant: a handshake that failed leaves a default key behind
BindKeyDefault(o) == IF o.kind = "reply" THEN o.val ELSE "k1"

\* device_key after bind_device has come to o (line 152)
BindKey(o) == IF o.kind = "reply" THEN o.val ELSE device_key

\* faulty variant: a key is stored only on a device that has none
bind_with_key_once(key) ==
    /\ IF ~device_info
       THEN /\ last' = Step("bind", <<key>>, "call", "none", "DeviceNotBoundError", <<>>)
            /\ UNCHANGED device_key
       ELSE /\ device_key' = IF Truthy(device_key) THEN device_key ELSE key
            /\ last' = Step("bind", <<key>>, "call", "none", "ok", <<>>)
    /\ UNCHANGED <<device_info, hid, version, _properties, _dirty, pc,
                   start_dirty, lset, kept, hid_seen, pending, tracking>>

\* faulty variant: the DeviceInfo is looked at on the handshake path only
bind_with_key_unchecked(key) ==
    /\ device_key' = key
    /\ last' = Step("bind", <<key>>, "call", "none", "ok", <<>>)
    /\ UNCHANGED <<device_info, hid, version, _properties, _dirty, pc,
                   start_dirty, lset, kept, hid_seen, pending, tracking>>

\* bind(key) with a key: no await on this path, so it runs in one step
bind_with_key(key) ==
    /\ IF ~device_info
       THEN /\ last' = Step("bind", <<key>>, "call", "none", "DeviceNotBoundError", <<>>)
            /\ UNCHANGED device_key
       ELSE /\ device_key' = key
            /\ last' = Step("bind", <<key>>, "call", "none", "ok", <<>>)
    /\ UNCHANGED <<device_info, hid, version, _properties, _dirty, pc,
                   start_dirty, lset, kept, hid_seen, pending, tracking>>

\* bind() up to "await network.bind_device"
bind_call ==
    /\ pc = "idle"
    /\ IF ~device_info
       THEN Finish("bind", "call", NoExchange, "DeviceNotBoundError")
       ELSE Suspend("bind", "call", NoExchange, "bind", BindRequest)
    /\ UNCHANGED <<device_info, device_key, hid, version, _properties, _dirty,
                   start_dirty, lset, kept, hid_seen, pending, tracking>>

\* bind() from the return of bind_device to its end
bind_resume(o) ==
    /\ pc = "bind"
    /\ device_key' = BindKey(o)
    /\ Finish("bind", "bind", o, BindResult(o))
    /\ UNCHANGED <<device_info, hid, version, _properties, _dirty,
                   start_dirty, lset, kept, hid_seen, pending, tracking>>

-----------------------------------------------------------------------------
(* request_version *)

\* self.hid = ret.get("hid")
HidAfter(o) == IF o.kind = "reply" THEN o.val ELSE hid

\* version is assigned only under "if self.hid"
VersionAfter(o) ==
    IF o.kind = "reply" /\ Truthy(o.val) THEN VersionOf(o.val) ELSE version

VersionRequest(key) == StatusRequest(<<"hid", "time">>, key)

\* called on a device that has a DeviceInfo
request_version_call ==
    /\ pc = "idle"
    /\ device_info
    /\ Suspend("request_version", "call", NoExchange, "version", VersionRequest(device_key))
    /\ UNCHANGED <<device_info, device_key, hid, version, _properties, _dirty,
                   start_dirty, lset, kept, hid_seen, pending, tracking>>

\* called directly, nothing catches asyncio.TimeoutError
request_version_resume(o) ==
    /\ pc = "version"
    /\ hid' = HidAfter(o)
    /\ version' = VersionAfter(o)
    /\ hid_seen' = Hist(hid_seen \/ Truthy(HidAfter(o)), hid_seen)
    /\ Finish("request_version", "version", o,
              IF o.kind = "reply" THEN "ok" ELSE Uncaught(o))
    /\ UNCHANGED <<device_info, device_key, _properties, _dirty,
                   start_dirty, lset, kept, pending, tracking>>

-----------------------------------------------------------------------------
(* update_state *)

\* the update ends with res; its history goes into the step record
FinishUpdate(at, o, res, k) ==
    /\ pc' = "idle"
    /\ kept' = <<>>
    /\ last' = [Step("update_state", <<>>, at, o.kind, res, <<>>)
                  EXCEPT !.got = Got(o), !.hist = IF res = "ok" THEN <<>> ELSE k]

update_state_call ==
    /\ pc = "idle"
    /\ IF Truthy(device_key)
       THEN /\ Suspend("update_state", "call", NoExchange, "update_state",
                       StatusRequest(Props, device_key))
            /\ kept' = Hist(<<_properties, hid, version>>, kept)
       ELSE IF ~device_info
            THEN FinishUpdate("call", NoExchange, "DeviceNotBoundError",
                              Hist(<<_properties, hid, version>>, kept))
            ELSE /\ Suspend("update_state", "call", NoExchange, "update_bind",
                            BindRequest)
                 /\ kept' = Hist(<<_properties, hid, version>>, kept)
    /\ UNCHANGED <<device_info, device_key, hid, version, _properties, _dirty,
                   start_dirty, lset, hid_seen, pending, tracking>>

\* from the return of the on-demand bind to "await network.request_state"
update_state_bound(o) ==
    /\ pc = "update_bind"
    /\ device_key' = BindKey(o)
    /\ IF BindResult(o) = "ok"
       THEN /\ Suspend("update_state", "update_bind", o, "update_state",
                       StatusRequest(Props, BindKey(o)))
            /\ UNCHANGED kept
       ELSE FinishUpdate("update_bind", o, BindResult(o), kept)
    /\ UNCHANGED <<device_info, hid, version, _properties, _dirty,
                   start_dirty, lset, hid_seen, pending, tracking>>

\* self._properties = await network.request_state(...)
PropertiesAfter(o) == IF o.kind = "reply" THEN Some(o.val) ELSE _properties

\* faulty variant: a status reply also empties the dirty list
update_state_resume_resets(o) ==
    /\ pc = "update_state"
    /\ _properties' = PropertiesAfter(o)
    /\ _dirty' = IF o.kind = "reply" THEN <<>> ELSE _dirty
    /\ IF o.kind = "reply"
       THEN IF ~Truthy(hid)
            THEN /\ Suspend("update_state", "update_state", o, "update_version",
                            VersionRequest(device_key))
                 /\ kept' = IF tracking
                            THEN [kept EXCEPT ![1] = (PropertiesAfter(o) = kept[1])]
                            ELSE kept
            ELSE FinishUpdate("update_state", o, "ok", kept)
       ELSE FinishUpdate("update_state", o, Caught(o), kept)
    /\ UNCHANGED <<device_info, device_key, hid, version,
                   start_dirty, lset, hid_seen, pending, tracking>>

update_state_resume(o) ==
    /\ pc = "update_state"
    /\ _properties' = PropertiesAfter(o)
    /\ IF o.kind = "reply"
       THEN IF ~Truthy(hid)
            THEN /\ Suspend("update_state", "update_state", o, "update_version",
                            VersionRequest(device_key))
                 /\ kept' = IF tracking
                            THEN [kept EXCEPT ![1] = (PropertiesAfter(o) = kept[1])]
                            ELSE kept
            ELSE FinishUpdate("update_state", o, "ok", kept)
       ELSE FinishUpdate("update_state", o, Caught(o), kept)
    /\ UNCHANGED <<device_info, device_key, hid, version, _dirty,
                   start_dirty, lset, hid_seen, pending, tracking>>

\* request_version inside update_state's try block
update_version_resume(o) ==
    /\ pc = "update_version"
    /\ hid' = HidAfter(o)
    /\ version' = VersionAfter(o)
    /\ hid_seen' = Hist(hid_seen \/ Truthy(HidAfter(o)), hid_seen)
    /\ FinishUpdate("update_version", o,
                    IF o.kind = "reply" THEN "ok" ELSE Caught(o), kept)
    /\ UNCHANGED <<device_info, device_key, _properties, _dirty,
                   start_dirty, lset, pending, tracking>>

-----------------------------------------------------------------------------
(* push_state_update *)

\* faulty variant: the whole cache is sent
PayloadWholeCache(d, cache) == [name \in DOMAIN cache |-> cache[name]]

\* lines 206-210: props[name] = self._properties.get(name) for name in self._dirty
Payload(d, cache) == [name \in Range(d) |-> Get(cache, name)]

\* faulty variant: the first entry survives the clear
ClearButFirst(d) == IF d = <<>> THEN d ELSE <<Head(d)>>

\* faulty variant: the list is not cleared before the send
ClearNothing(d) == d

\* self._dirty.clear()
Clear(d) == <<>>

\* lines 204-215, up to "await network.send_state"
SendDirty(at, o, key) ==
    /\ _dirty' = Clear(_dirty)
    /\ lset' = EmptyDict
    /\ pending' = EmptyDict
    /\ Suspend("push_state_update", at, o, "push_send",
               CmdRequest(Payload(_dirty, _properties[1]), key))

\* the push ends with res; its history goes into the step record
FinishPush(at, o, res, start, ls) ==
    /\ pc' = "idle"
    /\ start_dirty' = <<>>
    /\ lset' = EmptyDict
    /\ last' = [Step("push_state_update", <<>>, at, o.kind, res, <<>>)
                  EXCEPT !.got = Got(o), !.hist = <<start, ls>>]

\* faulty variant: the on-demand bind comes before the test of the dirty list
push_state_update_call_binds_first ==
    /\ pc = "idle"
    /\ IF Truthy(device_key)
       THEN IF _dirty = <<>>
            THEN /\ FinishPush("call", NoExchange, "ok", _dirty, EmptyDict)
                 /\ UNCHANGED <<_dirty, pending>>
            ELSE /\ SendDirty("call", NoExchange, device_key)
                 /\ start_dirty' = _dirty
       ELSE IF ~device_info
            THEN /\ FinishPush("call", NoExchange, "DeviceNotBoundError", _dirty, EmptyDict)
                 /\ UNCHANGED <<_dirty, pending>>
            ELSE /\ Suspend("push_state_update", "call", NoExchange, "push_bind", BindRequest)
                 /\ start_dirty' = _dirty
                 /\ UNCHANGED <<_dirty, lset, pending>>
    /\ UNCHANGED <<device_info, device_key, hid, version,
                   _properties, kept, hid_seen, tracking>>

push_state_update_call ==
    /\ pc = "idle"
    /\ IF _dirty = <<>>
       THEN /\ FinishPush("call", NoExchange, "ok", _dirty, EmptyDict)
            /\ UNCHANGED <<_dirty, pending>>
       ELSE IF Truthy(device_key)
            THEN /\ SendDirty("call", NoExchange, device_key)
                 /\ start_dirty' = _dirty
            ELSE IF ~device_info
                 THEN /\ FinishPush("call", NoExchange, "DeviceNotBoundError",
                                    _dirty, EmptyDict)
                      /\ UNCHANGED <<_dirty, pending>>
                 ELSE /\ Suspend("push_state_update", "call", NoExchange, "push_bind",
                                 BindRequest)
                      /\ start_dirty' = _dirty
                      /\ UNCHANGED <<_dirty, lset, pending>>
    /\ UNCHANGED <<device_info, device_key, hid, version,
                   _properties, kept, hid_seen, tracking>>

\* faulty variant: the push goes on whatever the on-demand bind came to
push_state_update_bound_unchecked(o) ==
    /\ pc = "push_bind"
    /\ device_key' = BindKey(o)
    /\ SendDirty("push_bind", o, BindKey(o))
    /\ UNCHANGED start_dirty
    /\ UNCHANGED <<device_info, hid, version, _properties, kept, hid_seen, tracking>>

\* from the return of the on-demand bind to "await network.send_state"
push_state_update_bound(o) ==
    /\ pc = "push_bind"
    /\ device_key' = BindKey(o)
    /\ IF BindResult(o) = "ok"
       THEN /\ SendDirty("push_bind", o, BindKey(o))
            /\ UNCHANGED start_dirty
       ELSE /\ FinishPush("push_bind", o, BindResult(o), start_dirty, lset)
            /\ UNCHANGED <<_dirty, pending>>
    /\ UNCHANGED <<device_info, hid, version, _properties, kept, hid_seen, tracking>>

\* faulty variant: the dirty list is cleared once send_state has returned
push_state_update_resume_clears(o) ==
    /\ pc = "push_send"
    /\ _dirty' = <<>>
    /\ FinishPush("push_send", o,
                  IF o.kind = "reply" THEN "ok" ELSE Caught(o), start_dirty, lset)
    /\ UNCHANGED <<device_info, device_key, hid, version, _properties,
                   kept, hid_seen, pending, tracking>>

\* from the return of send_state to the end
push_state_update_resume(o) ==
    /\ pc = "push_send"
    /\ FinishPush("push_send", o,
                  IF o.kind = "reply" THEN "ok" ELSE Caught(o), start_dirty, lset)
    /\ UNCHANGED <<device_info, device_key, hid, version, _properties,
                   _dirty, kept, hid_seen, pending, tracking>>

-----------------------------------------------------------------------------
Next ==
    \/ \E name \in Codes, value \in Values : set_property(name, value)
    \/ \E name \in Codes : get_property(name)
    \/ \E key \in Keys : bind_with_key(key)
    \/ bind_call
    \/ \E o \in bind_device : bind_resume(o)
    \/ request_version_call
    \/ \E o \in request_hid : request_version_resume(o)
    \/ update_state_call
    \/ \E o \in bind_device : update_state_bound(o)
    \/ \E o \in request_state : update_state_resume(o)
    \/ \E o \in request_hid : update_version_resume(o)
    \/ push_state_update_call
    \/ \E o \in bind_device : push_state_update_bound(o)
    \/ \E o \in send_state : push_state_update_resume(o)

Spec == Init /\ [][Next]_vars

\* the same program with the histories recorded
SpecHist == InitHist /\ [][Next]_vars

-----------------------------------------------------------------------------
(* Properties *)

IsPushEnd(l) == l.op = "push_state_update" /\ l.res # "pending"
BindAwaits == {"bind", "update_bind", "push_bind"}

\* C1: every code of the dirty list is a key of the property cache.
\* update_state replaces the cache by the device's reply, whatever the dirty list holds.
C1_DirtyInCache ==
    \A name \in Range(_dirty) : name \in DOMAIN Contents(_properties)

\* C2: a push_state_update during which no set_property changed the cache ends with
\* the dirty list empty or exactly as it was when the call began.
C2_PushAllOrNothing ==
    (IsPushEnd(last) /\ last.hist[2] = EmptyDict)
        => (_dirty = <<>> \/ _dirty = last.hist[1])

\* a push that failed in its on-demand bind and left two dirty codes as they were
C2_Witness ==
    /\ IsPushEnd(last)
    /\ last.at = "push_bind"
    /\ last.res \in {"DeviceTimeoutError", "DeviceNotBoundError"}
    /\ last.hist[2] = EmptyDict
    /\ Len(_dirty) = 2
    /\ _dirty = last.hist[1]

\* C3: when send_state times out, push_state_update raises DeviceTimeoutError and the
\* dirty list is empty after the call (no setter having run meanwhile); no step of a
\* push changes the property cache, which so keeps the values set locally.
C3_PushTimeout ==
    [][/\ last'.op = "push_state_update" => _properties' = _properties
       /\ (pc = "push_send" /\ last'.op = "push_state_update" /\ last'.net = "timeout")
            => /\ last'.res = "DeviceTimeoutError"
               /\ lset = EmptyDict => _dirty' = <<>>]_vars

C3_Witness ==
    /\ IsPushEnd(last)
    /\ last.at = "push_send"
    /\ last.net = "timeout"
    /\ last.res = "DeviceTimeoutError"
    /\ last.hist[1] # <<>>
    /\ last.hist[2] = EmptyDict
    /\ _dirty = <<>>
    /\ \A name \in Range(last.hist[1]) : name \in DOMAIN Contents(_properties)

\* C4: a set_property that changed the cache while the push was suspended on
\* send_state is still pending when the push ends: its code is dirty and the cache
\* holds its value.
C4_SetterNotDropped ==
    (IsPushEnd(last) /\ last.at = "push_send")
        => \A name \in DOMAIN last.hist[2] :
               /\ name \in Range(_dirty)
               /\ Get(Contents(_properties), name) = last.hist[2][name]

\* a push that timed out, with a code of its payload set again meanwhile
C4_Witness ==
    /\ IsPushEnd(last)
    /\ last.at = "push_send"
    /\ last.res = "DeviceTimeoutError"
    /\ \E name \in DOMAIN last.hist[2] :
           /\ name \in Range(last.hist[1])
           /\ name \in Range(_dirty)

\* C5: set_property(name, value) changes nothing of the cache contents and the dirty
\* list when value is the cached value; otherwise the cache holds value and the code
\* is dirty; device_key, hid and version are unchanged and nothing is sent.
C5_SetProperty ==
    [][last'.op = "set_property"
        => LET name == last'.args[1]
               value == last'.args[2]
           IN  /\ Get(Contents(_properties), name) = value
                   => /\ Contents(_properties') = Contents(_properties)
                      /\ _dirty' = _dirty
               /\ Get(Contents(_properties), name) # value
                   => /\ Get(Contents(_properties'), name) = value
                      /\ name \in Range(_dirty')
               /\ device_key' = device_key
               /\ hid' = hid
               /\ version' = version
               /\ last'.sent = <<>>]_vars

\* a set_property of the cached value on a code that is not dirty
C5_Witness ==
    /\ last.op = "set_property"
    /\ Get(Contents(_properties), last.args[1]) = last.args[2]
    /\ last.args[1] \notin Range(_dirty)
    /\ _dirty # <<>>

\* C6: the dirty list holds each code at most once.
C6_NoDuplicates ==
    \A i, j \in 1..Len(_dirty) : _dirty[i] = _dirty[j] => i = j

\* a set_property that found its value in the cache, the code being dirty already
C6_Witness ==
    /\ last.op = "set_property"
    /\ last.at = "return"
    /\ Cardinality({i \in 1..Len(_dirty) : _dirty[i] = last.args[1]}) = 1

\* C7: push_state_update with an empty dirty list sends nothing, starts no handshake,
\* raises nothing and leaves device_key, the cache and the dirty list as they were.
C7_EmptyPush ==
    [][(pc = "idle" /\ _dirty = <<>> /\ last'.op = "push_state_update")
        => /\ last'.sent = <<>>
           /\ last'.res = "ok"
           /\ pc' = "idle"
           /\ device_key' = device_key
           /\ _properties' = _properties
           /\ _dirty' = _dirty]_vars

\* on an unbound device that has a DeviceInfo
C7_Witness ==
    /\ IsPushEnd(last)
    /\ last.at = "call"
    /\ last.res = "ok"
    /\ device_info
    /\ ~Truthy(device_key)
    /\ _dirty = <<>>

\* C8: bind(key) on a device with a DeviceInfo sends nothing and ends with device_key
\* equal to key, whatever the key was before.
C8_BindWithKey ==
    [][(device_info /\ last'.op = "bind" /\ last'.args # <<>>)
        => /\ last'.sent = <<>>
           /\ last'.res = "ok"
           /\ device_key' = last'.args[1]]_vars

\* bind(key) run while a handshake is awaited
C8_Witness ==
    /\ last.op = "bind"
    /\ last.args # <<>>
    /\ last.res = "ok"
    /\ device_key = last.args[1]
    /\ pc \in BindAwaits

\* C9: when bind_device times out, bind() raises DeviceTimeoutError and assigns no
\* key: device_key is left as it was, unset on a device that was unbound.
C9_BindTimeout ==
    [][(pc \in BindAwaits /\ last'.at = pc /\ last'.net = "timeout")
        => /\ last'.res = "DeviceTimeoutError"
           /\ device_key' = device_key]_vars

C9_Witness ==
    /\ last.op = "bind"
    /\ last.at = "bind"
    /\ last.net = "timeout"
    /\ last.res = "DeviceTimeoutError"
    /\ device_key = None

\* C10: when bind_device returns no key or an empty one, bind() raises
\* DeviceNotBoundError.
C10_BindNoKey ==
    [][(pc \in BindAwaits /\ last'.at = pc /\ last'.net = "reply"
            /\ ~Truthy(device_key'))
        => last'.res = "DeviceNotBoundError"]_vars

\* the handshake answered with an empty key
C10_Witness ==
    /\ last.op = "bind"
    /\ last.at = "bind"
    /\ last.net = "reply"
    /\ last.res = "DeviceNotBoundError"
    /\ device_key = ""

\* C11: when bind_device returns a non-empty key k, bind() ends without error and
\* device_key is k.
C11_BindGetsKey ==
    [][(pc \in BindAwaits /\ last'.at = pc /\ last'.net = "reply"
            /\ Truthy(last'.got[1]))
        => /\ last'.res \in {"ok", "pending"}
           /\ pc = "bind" => last'.res = "ok"
           /\ device_key' = last'.got[1]]_vars

\* a handshake that returned the key k2
C11_Witness ==
    /\ last.op = "bind"
    /\ last.at = "bind"
    /\ last.net = "reply"
    /\ last.res = "ok"
    /\ last.got = <<"k2">>
    /\ device_key = "k2"

\* C12: bind on a device without DeviceInfo raises DeviceNotBoundError, with a key or
\* without, sends nothing and leaves device_key as it was.
C12_BindNoInfo ==
    [][(~device_info /\ last'.op = "bind")
        => /\ last'.res = "DeviceNotBoundError"
           /\ last'.sent = <<>>
           /\ pc' = pc
           /\ device_key' = device_key]_vars

\* bind(key) refused
C12_Witness ==
    /\ ~device_info
    /\ last.op = "bind"
    /\ last.args # <<>>
    /\ last.res = "DeviceNotBoundError"
    /\ device_key = None

\* C13: Bound is terminal: a device that holds a session key holds one after every
\* step of every operation.
\* bind() assigns what bind_device returned before it looks at it.
C13_BoundIsTerminal ==
    [][Truthy(device_key) => Truthy(device_key')]_vars

\* C14: bind, request_version, update_state and push_state_update end in success,
\* DeviceNotBoundError, DeviceTimeoutError or DecodeError, and in nothing else.
\* request_version has no handler for asyncio.TimeoutError.
Outcomes == {"ok", "DeviceNotBoundError", "DeviceTimeoutError", "DecodeError"}

C14_ThreeErrorKinds ==
    (last.op \in {"bind", "request_version", "update_state", "push_state_update"}
        /\ last.res # "pending")
        => last.res \in Outcomes

\* C15: an update_state that raises DeviceTimeoutError leaves the property cache, hid
\* and version as they were before the call (set_property calls made meanwhile apart).
\* The status reply is stored before the version request is awaited.
C15_TimeoutChangesNothing ==
    (last.op = "update_state" /\ last.res = "DeviceTimeoutError")
        => /\ IF last.at = "update_version"
              THEN last.hist[1] = TRUE
              ELSE _properties = last.hist[1]
           /\ hid = last.hist[2]
           /\ version = last.hist[3]

\* C16: update_state runs the handshake if and only if device_key is unset at the call
\* (on a device that has a DeviceInfo), then sends one status request for the five
\* codes of Props, whose reply replaces the cache, then a version request if and only
\* if hid is unset; none once a hardware id has been observed, and no status request
\* when the on-demand bind fails.
\* request_version stores the hid of the reply even when the reply has none.
IsUpdateStep(l) == l.op = "update_state"

C16_UpdateOrder ==
    [][IsUpdateStep(last')
        => /\ (pc = "idle" /\ device_info)
               => last'.sent = IF Truthy(device_key)
                               THEN <<StatusRequest(Props, device_key)>>
                               ELSE <<BindRequest>>
           /\ (pc = "idle" /\ ~device_info /\ ~Truthy(device_key))
               => last'.sent = <<>> /\ last'.res = "DeviceNotBoundError"
           /\ pc = "update_bind"
               => IF last'.net = "reply" /\ Truthy(last'.got[1])
                  THEN last'.sent = <<StatusRequest(Props, last'.got[1])>>
                  ELSE last'.sent = <<>> /\ last'.res # "pending"
           /\ (pc = "update_state" /\ last'.net = "reply")
               => /\ _properties' = Some(last'.got[1])
                  /\ last'.sent = IF Truthy(hid)
                                  THEN <<>> ELSE <<VersionRequest(device_key)>>
           /\ (pc = "update_state" /\ last'.net # "reply")
               => last'.sent = <<>> /\ last'.res # "pending"
           /\ pc = "update_version" => last'.sent = <<>> /\ last'.res # "pending"
           /\ hid_seen => \A i \in 1..Len(last'.sent) :
                              last'.sent[i] # VersionRequest(device_key)]_vars

\* a step of push_state_update that sends the command request
IsCmd(l) == l.op = "push_state_update" /\ l.sent # <<>> /\ l.sent[1].t = "cmd"

\* C17: a push_state_update called with a non-empty dirty list sends a command request
\* that carries exactly the codes of the dirty list as it is when the payload is built,
\* each with the value the cache has for it then; when the on-demand bind fails no
\* command request is sent.
C17_PayloadIsDirty ==
    [][last'.op = "push_state_update"
        => /\ IsCmd(last')
               => /\ _dirty # <<>>
                  /\ DOMAIN last'.sent[1].dat = Range(_dirty)
                  /\ \A c \in Range(_dirty) :
                        last'.sent[1].dat[c] = Get(Contents(_properties), c)
           /\ (pc = "idle" /\ _dirty # <<>> /\ Truthy(device_key)) => IsCmd(last')
           /\ (pc = "push_bind" /\ last'.net = "reply" /\ Truthy(last'.got[1]))
               => IsCmd(last')
           /\ (pc = "push_bind" /\ last'.res # "pending")
               => /\ last'.sent = <<>>
                  /\ last'.res \in {"DeviceNotBoundError", "DeviceTimeoutError",
                                    "DecodeError"}
           /\ ~IsCmd(last') => last'.sent \in {<<>>, <<BindRequest>>}]_vars

\* a command request went out for one code while the cache holds another code too
C17_Witness ==
    /\ IsCmd(last)
    /\ Cardinality(DOMAIN last.sent[1].dat) = 1
    /\ \E c \in DOMAIN Contents(_properties) : c \notin DOMAIN last.sent[1].dat

\* C18: for every code in the payload of a push_state_update, the value sent is the
\* value given by the most recent set_property call for that code.
\* update_state replaces the cache, and the payload is read from the cache.
C18_LocalValuePushed ==
    [][IsCmd(last')
        => \A c \in DOMAIN last'.sent[1].dat :
              /\ c \in DOMAIN pending
              /\ last'.sent[1].dat[c] = pending[c]]_vars

\* C19: every status or command request of update_state and push_state_update is
\* sent with a non-empty session key, which is the device's key; after an on-demand bind
\* it is the key that bind obtained.
C19_KeyBeforeRequest ==
    (last.op \in {"update_state", "push_state_update"}
        /\ last.sent # <<>> /\ last.sent[1].t \in {"status", "cmd"})
        => /\ Truthy(last.sent[1].key)
           /\ last.sent[1].key = device_key
           /\ last.at \in {"update_bind", "push_bind"}
               => last.got = <<last.sent[1].key>>

\* a command request sent with the key of the on-demand bind
C19_Witness ==
    /\ IsCmd(last)
    /\ last.at = "push_bind"
    /\ last.got = <<device_key>>

\* C20: update_state and request_version leave the dirty list as it is,
\* push_state_update leaves the property cache, hid and version as they are, and
\* get_property changes nothing of the device.
C20_Frame ==
    [][/\ last'.op \in {"update_state", "request_version"} => _dirty' = _dirty
       /\ last'.op = "push_state_update"
           => _properties' = _properties /\ hid' = hid /\ version' = version
       /\ last'.op = "get_property"
           => UNCHANGED <<device_info, device_key, hid, version, _properties,
                          _dirty, pc>>]_vars

\* an update_state stored a status reply while the dirty list was not empty
C20_Witness ==
    /\ last.op = "update_state"
    /\ last.at = "update_state"
    /\ last.net = "reply"
    /\ _dirty # <<>>
====
